---- MODULE Spec2Model ----
(***************************************************************************)
(* Emergency routing core (core.py): DescargadorRed builds a directed,     *)
(* weighted road graph from OSM ways; SistemaRutasEmergenciaGuayaquil      *)
(* attaches the service and reference catalogue to it by edge splitting,   *)
(* prepares all-pairs shortest paths (Floyd-Warshall) and answers route    *)
(* and nearest-service queries.                                            *)
(*                                                                         *)
(* Units.  Coordinates are pairs <<lat, lon>> of integers on a local grid  *)
(* whose step is 5 m; lengths and edge weights are integers in the same    *)
(* step (0.01 km = 2, 0.5 km = 100).  The grid is coarser than the         *)
(* 6-decimal coordinate key, so distinct grid points have distinct keys.   *)
(***************************************************************************)
EXTENDS Integers, Sequences, FiniteSets, TLC

(***************************************************************************)
(* Bounds of the model.                                                    *)
(***************************************************************************)
MaxWays == 2          \* elements of a document in SpecBuild
MaxWaysSys == 1       \* elements of a document in Spec
MaxPts == 2           \* points of a modelled way
MaxCargas == 2        \* cargar_red_vial calls in one run of Spec
MaxServicios == 2     \* catalogue services integrated (first ones)
MaxReferencias == 2   \* catalogue references integrated (first ones)
MaxResultados == 2    \* largest max_resultados asked
MaxNodosFW == 4       \* nodes of a graph in SpecFW
MaxAristasFW == 3     \* edges of a graph in SpecFW
MaxPesoFW == 3        \* heaviest edge in SpecFW, in multiples of MIN_PESO
MaxGeom == 9          \* points of a way in SpecDown

(***************************************************************************)
(* Program constants.                                                      *)
(***************************************************************************)
MAX_NODOS == 5000
INF == 1000000                       \* float('inf')
SinSucesor == -1                     \* None in matriz_sucesores
MIN_PESO == 2                        \* 0.01 km
CAP_REF == 100                       \* 0.5 km

None == [none |-> TRUE]
NoId == <<"none", 0>>                \* None where a node id is expected

Max(a, b) == IF a >= b THEN a ELSE b
Min(a, b) == IF a <= b THEN a ELSE b
Range(s) == {s[i] : i \in 1..Len(s)}

(***************************************************************************)
(* dict: insertion-ordered sequence of [k, v] entries (key, value).        *)
(***************************************************************************)
HasKey(nodos, id) == \E i \in 1..Len(nodos) : nodos[i].k = id
Keys(nodos) == {nodos[i].k : i \in 1..Len(nodos)}
KeyPos(nodos, id) == CHOOSE i \in 1..Len(nodos) : nodos[i].k = id
Get(nodos, id) == nodos[KeyPos(nodos, id)].v
\* d[key] = value: overwrites in place, or appends a new key
DictSet(nodos, id, pos) ==
    IF HasKey(nodos, id)
    THEN [nodos EXCEPT ![KeyPos(nodos, id)] = [k |-> id, v |-> pos]]
    ELSE Append(nodos, [k |-> id, v |-> pos])

(***************************************************************************)
(* GeoMath                                                                 *)
(***************************************************************************)
RECURSIVE ISqrtIn(_, _, _)
ISqrtIn(n, lo, hi) ==
    IF lo >= hi THEN lo
    ELSE LET m == (lo + hi + 1) \div 2
         IN IF m * m <= n THEN ISqrtIn(n, m, hi) ELSE ISqrtIn(n, lo, m - 1)
ISqrt(n) == ISqrtIn(n, 0, Min(n, 40000))

\* great-circle distance, at the grid's scale the planar distance, rounded down
_haversine_km(coord1, coord2) ==
    LET dlat == coord2[1] - coord1[1]
        dlon == coord2[2] - coord1[2]
    IN ISqrt(dlat * dlat + dlon * dlon)

\* local plane: x from the longitude, y from the latitude (cos(lat0) is 1 at
\* the grid's resolution this close to the equator)
_latlon_to_xy(lat, lon, lat0) == <<lon, lat>>
_xy_to_latlon(x, y, lat0) == <<y, x>>

\* n / d rounded to the nearest integer, d > 0
RoundDiv(n, d) == (2 * n + d) \div (2 * d)

(***************************************************************************)
(* DescargadorRed.procesar_red_osm                                         *)
(***************************************************************************)
\* str(...).lower() on the tag values of the model
Lower(s) == CASE s = "TRUE" -> "true"
              [] s = "YES" -> "yes"
              [] OTHER -> s

\* dir_mode that tests the roundabout before the backward tag
dir_mode_rotonda_primero(tags) ==
    IF Lower(tags.oneway) \in {"yes", "true", "1"} THEN "forward"
    ELSE IF Lower(tags.junction) = "roundabout" THEN "forward"
    ELSE IF Lower(tags.oneway) = "-1" THEN "backward"
    ELSE "both"

dir_mode(tags) ==
    LET oneway == Lower(tags.oneway)
        junction == Lower(tags.junction)
    IN IF oneway \in {"yes", "true", "1"} THEN "forward"
       ELSE IF oneway = "-1" THEN "backward"
       ELSE IF junction = "roundabout" THEN "forward"
       ELSE "both"

IsWay(el) == el.type = "way" /\ el.has_geometry

RECURSIVE SumPoints(_)
SumPoints(elements) ==
    IF elements = <<>> THEN 0
    ELSE (IF IsWay(Head(elements)) THEN Len(Head(elements).geometry) ELSE 0)
         + SumPoints(Tail(elements))

objetivo == Max(500, MAX_NODOS - 150)

CeilDiv(n, d) == (n + d - 1) \div d

\* max(1, ceil(total_points * 1.1 / objetivo)) when total_points > objetivo
downsample_step(total_points) ==
    IF total_points > objetivo
    THEN Max(1, CeilDiv(total_points * 11, objetivo * 10))
    ELSE 1

\* KeepsIdx without the exception for the last point
KeepsIdxSinUltimo(idx, len, step) ==
    ~((step > 1) /\ (idx % step # 0))

\* the 0-based indices of a way's points that the loop does not skip
KeepsIdx(idx, len, step) ==
    ~((step > 1) /\ (idx % step # 0) /\ (idx # len - 1))

RECURSIVE kept_from(_, _, _)
kept_from(idx, len, step) ==
    IF idx >= len THEN <<>>
    ELSE (IF KeepsIdx(idx, len, step) THEN <<idx>> ELSE <<>>)
         \o kept_from(idx + 1, len, step)

kept_indices(len, step) == kept_from(0, len, step)

coord_key(p) == <<p[1], p[2]>>

\* the builder's locals: nodos, aristas, nodo_counter, coord_to_id
EmptyBuild == [nodos |-> <<>>, aristas |-> <<>>, nodo_counter |-> 0,
               coord_to_id |-> <<>>]

\* one point of a way: a fresh node for a new key, then way_nodes.append
AddPoint(b, punto) ==
    LET key == coord_key(punto)
    IN IF HasKey(b.coord_to_id, key)
       THEN [b |-> b, id |-> Get(b.coord_to_id, key)]
       ELSE LET node_id == <<"node", b.nodo_counter>>
            IN [b |-> [b EXCEPT !.coord_to_id = DictSet(@, key, node_id),
                                !.nodos = DictSet(@, node_id, punto),
                                !.nodo_counter = @ + 1],
                id |-> node_id]

RECURSIVE WayNodes(_, _, _, _)
\* returns [b, way_nodes] after the points kept[i..]
WayNodes(b, geometry, kept, i) ==
    IF i > Len(kept) THEN [b |-> b, way_nodes |-> <<>>]
    ELSE LET r == AddPoint(b, geometry[kept[i] + 1])
             rest == WayNodes(r.b, geometry, kept, i + 1)
         IN [b |-> rest.b, way_nodes |-> <<r.id>> \o rest.way_nodes]

\* the edges one consecutive pair of way nodes emits
PairEdges(nodos, n1, n2, mode) ==
    IF n1 = n2 THEN <<>>
    ELSE LET distancia == Max(_haversine_km(Get(nodos, n1), Get(nodos, n2)), MIN_PESO)
         IN (IF mode \in {"both", "forward"} THEN << <<n1, n2, distancia>> >> ELSE <<>>)
            \o (IF mode \in {"both", "backward"} THEN << <<n2, n1, distancia>> >> ELSE <<>>)

RECURSIVE WayEdges(_, _, _, _)
WayEdges(nodos, way_nodes, mode, i) ==
    IF i > Len(way_nodes) - 1 THEN <<>>
    ELSE PairEdges(nodos, way_nodes[i], way_nodes[i + 1], mode)
         \o WayEdges(nodos, way_nodes, mode, i + 1)

\* one iteration of the loop over the elements
ProcessElement(b, elemento, step) ==
    IF ~IsWay(elemento) THEN b
    ELSE LET geometry == elemento.geometry
             r == WayNodes(b, geometry, kept_indices(Len(geometry), step), 1)
         IN [r.b EXCEPT !.aristas =
                @ \o WayEdges(r.b.nodos, r.way_nodes, dir_mode(elemento.tags), 1)]

RECURSIVE ProcessElements(_, _, _)
ProcessElements(b, elements, step) ==
    IF elements = <<>> THEN b
    ELSE ProcessElements(ProcessElement(b, Head(elements), step), Tail(elements), step)

procesar_red_osm(data_osm) ==
    LET step == downsample_step(SumPoints(data_osm))
        b == ProcessElements(EmptyBuild, data_osm, step)
    IN [nodos |-> b.nodos, aristas |-> b.aristas]

(***************************************************************************)
(* PointSnapper: _nearest_edge_projection, _split_edge_and_connect_point   *)
(***************************************************************************)
\* the clamped parameter t of the projection: "0", "1" or "in" (strictly between)
ClampT(denom, num) ==
    IF denom = 0 THEN "0"
    ELSE IF num <= 0 THEN "0"
    ELSE IF num >= denom THEN "1"
    ELSE "in"

\* one coordinate of the projected point a + t * v, on the grid
ProjCoord(t, a, v, num, denom) ==
    IF t = "0" THEN a
    ELSE IF t = "1" THEN a + v
    ELSE a + RoundDiv(num * v, denom)

SqDist(px, py, qx, qy) == (px - qx) * (px - qx) + (py - qy) * (py - qy)

ProjResult(t, qx, qy, p, lat0) ==
    [q |-> _xy_to_latlon(qx, qy, lat0), t |-> t, d2 |-> SqDist(p[1], p[2], qx, qy)]

ProjClamped(t, a, vx, vy, num, denom, p, lat0) ==
    ProjResult(t, ProjCoord(t, a[1], vx, num, denom), ProjCoord(t, a[2], vy, num, denom),
               p, lat0)

ProjVW(a, vx, vy, wx, wy, p, lat0) ==
    ProjClamped(ClampT(vx * vx + vy * vy, wx * vx + wy * vy), a, vx, vy,
                wx * vx + wy * vy, vx * vx + vy * vy, p, lat0)

ProjAB(a, b, p, lat0) ==
    ProjVW(a, b[1] - a[1], b[2] - a[2], p[1] - a[1], p[2] - a[2], p, lat0)

\* the projection of the point on one edge: [q, t, d2], q on the grid,
\* d2 the squared planar distance from the point to q
EdgeProjection(ca, cb, point_latlon) ==
    ProjAB(_latlon_to_xy(ca[1], ca[2], point_latlon[1]),
           _latlon_to_xy(cb[1], cb[2], point_latlon[1]),
           _latlon_to_xy(point_latlon[1], point_latlon[2], point_latlon[1]),
           point_latlon[1])

Better(best, pr) == ~best.found \/ pr.d2 < best.d2

NewBest(edge, pr) ==
    [found |-> TRUE, u |-> edge[1], v |-> edge[2], t |-> pr.t, q |-> pr.q, d2 |-> pr.d2]

\* one edge of the scan: a strictly smaller distance replaces best
ScanEdge(best, edge, pr) == IF Better(best, pr) THEN NewBest(edge, pr) ELSE best

RECURSIVE BestEdge(_, _, _, _, _)
BestEdge(nodos, aristas, point_latlon, i, best) ==
    IF i > Len(aristas) THEN best
    ELSE BestEdge(nodos, aristas, point_latlon, i + 1,
                  ScanEdge(best, aristas[i],
                           EdgeProjection(Get(nodos, aristas[i][1]),
                                          Get(nodos, aristas[i][2]), point_latlon)))

NoEdge == [found |-> FALSE, u |-> NoId, v |-> NoId, t |-> "0", q |-> <<0, 0>>, d2 |-> 0]

_nearest_edge_projection(rv, point_latlon) ==
    IF rv = None \/ rv.aristas = <<>> THEN NoEdge
    ELSE BestEdge(rv.nodos, rv.aristas, point_latlon, 1, NoEdge)

dir_set(aristas) == {<<aristas[i][1], aristas[i][2]>> : i \in 1..Len(aristas)}

\* the id given to the snap node
snap_id(rv) == <<"snap", Len(rv.nodos)>>

\* split_edges without the floor on the two parts
split_edges_sin_minimo(rv, u, v, new_id, d_uq, d_qv) ==
    (IF <<u, v>> \in dir_set(rv.aristas)
     THEN << <<u, new_id, d_uq>>, <<new_id, v, d_qv>> >>
     ELSE <<>>)
    \o (IF <<v, u>> \in dir_set(rv.aristas)
        THEN << <<v, new_id, d_qv>>, <<new_id, u, d_uq>> >>
        ELSE <<>>)

\* split_edges that mirrors the pair whether or not the reverse edge exists
split_edges_ambos_sentidos(rv, u, v, new_id, d_uq, d_qv) ==
    << <<u, new_id, Max(d_uq, MIN_PESO)>>, <<new_id, v, Max(d_qv, MIN_PESO)>>,
       <<v, new_id, Max(d_qv, MIN_PESO)>>, <<new_id, u, Max(d_uq, MIN_PESO)>> >>

\* the edges the split appends, for the nearest edge (u, v) and the snap node
split_edges(rv, u, v, new_id, d_uq, d_qv) ==
    (IF <<u, v>> \in dir_set(rv.aristas)
     THEN << <<u, new_id, Max(d_uq, MIN_PESO)>>, <<new_id, v, Max(d_qv, MIN_PESO)>> >>
     ELSE <<>>)
    \o (IF <<v, u>> \in dir_set(rv.aristas)
        THEN << <<v, new_id, Max(d_qv, MIN_PESO)>>, <<new_id, u, Max(d_uq, MIN_PESO)>> >>
        ELSE <<>>)

\* the graph after the split at the projection res, with the snap node new_id
SplitAt(rv, nodos2, res, new_id, point_latlon) ==
    [rv |-> [nodos |-> nodos2,
             aristas |-> rv.aristas
                         \o split_edges(rv, res.u, res.v, new_id,
                                        _haversine_km(Get(nodos2, res.u), res.q),
                                        _haversine_km(res.q, Get(nodos2, res.v)))],
     new_id |-> new_id,
     d_conn |-> Max(_haversine_km(point_latlon, res.q), MIN_PESO)]

SplitWith(rv, res, point_latlon) ==
    IF ~res.found THEN [rv |-> rv, new_id |-> NoId, d_conn |-> 0]
    ELSE SplitAt(rv, DictSet(rv.nodos, snap_id(rv), res.q), res, snap_id(rv), point_latlon)

\* returns [rv, new_id, d_conn]; new_id = NoId when there is no edge to snap to
_split_edge_and_connect_point(rv, point_latlon) ==
    SplitWith(rv, _nearest_edge_projection(rv, point_latlon), point_latlon)

(***************************************************************************)
(* The catalogue.  Names are the catalogue's; positions are grid points.   *)
(***************************************************************************)
servicios_emergencia ==
    << [nombre |-> "Hospital del IESS Los Ceibos", tipo |-> "Hospital", coordenadas |-> <<3, 4>>],
       [nombre |-> "InterHospital", tipo |-> "Hospital", coordenadas |-> <<0, 0>>],
       [nombre |-> "Cuartel Bomberos #5", tipo |-> "Bomberos", coordenadas |-> <<1, 9>>],
       [nombre |-> "UPC Los Ceibos", tipo |-> "Policia", coordenadas |-> <<5, 2>>],
       [nombre |-> "UPC Los Ceibos 2", tipo |-> "Policia", coordenadas |-> <<2, 6>>] >>

ubicaciones_referencia ==
    << [nombre |-> "ESPOL", coordenadas |-> <<0, 150>>],
       [nombre |-> "FADCOM ESPOL", coordenadas |-> <<2, 1>>],
       [nombre |-> "FIEC ESPOL", coordenadas |-> <<4, 4>>],
       [nombre |-> "FCNM ESPOL", coordenadas |-> <<1, 3>>],
       [nombre |-> "FCSH ESPOL", coordenadas |-> <<6, 0>>],
       [nombre |-> "FCV ESPOL", coordenadas |-> <<3, 7>>],
       [nombre |-> "FICT ESPOL", coordenadas |-> <<5, 5>>],
       [nombre |-> "FIMCP ESPOL", coordenadas |-> <<0, 3>>],
       [nombre |-> "Los Ceibos", coordenadas |-> <<2, 2>>],
       [nombre |-> "Riocentro Ceibos", coordenadas |-> <<4, 1>>],
       [nombre |-> "Las Cumbres", coordenadas |-> <<1, 6>>],
       [nombre |-> "Colinas de los Ceibos", coordenadas |-> <<6, 6>>] >>

NumServicios == Min(MaxServicios, Len(servicios_emergencia))
NumReferencias == Min(MaxReferencias, Len(ubicaciones_referencia))
NumPOI == NumServicios + NumReferencias
Tipos == {servicios_emergencia[i].tipo : i \in 1..Len(servicios_emergencia)}

\* f"servicio_{nombre}" and f"ref_{nombre}": the prefix and the catalogue index
servicio_id(i) == <<"servicio", i>>
ref_id(i) == <<"ref", i>>

\* the k-th point of interest in the order _integrar_servicios_en_red visits
poi_is_ref(kk) == kk > NumServicios
poi_id(kk) == IF poi_is_ref(kk) THEN ref_id(kk - NumServicios) ELSE servicio_id(kk)
poi_coords(kk) == IF poi_is_ref(kk) THEN ubicaciones_referencia[kk - NumServicios].coordenadas
                  ELSE servicios_emergencia[kk].coordenadas

\* connector_edges without the test that the snap gave a node
connector_edges_sin_guarda(kk, node_id, new_node, d_conn) ==
    IF poi_is_ref(kk)
    THEN LET d == Min(d_conn, CAP_REF)
         IN << <<node_id, new_node, d>>, <<new_node, node_id, d>> >>
    ELSE << <<node_id, new_node, d_conn>>, <<new_node, node_id, d_conn>> >>

\* the two connector edges of a point of interest
connector_edges(kk, node_id, new_node, d_conn) ==
    IF new_node = NoId THEN <<>>
    ELSE IF poi_is_ref(kk)
    THEN (IF new_node # node_id
          THEN LET d == Min(d_conn, CAP_REF)
               IN << <<node_id, new_node, d>>, <<new_node, node_id, d>> >>
          ELSE <<>>)
    ELSE << <<node_id, new_node, d_conn>>, <<new_node, node_id, d_conn>> >>

\* the catalogue the model integrates and queries
Servicios == SubSeq(servicios_emergencia, 1, NumServicios)

(***************************************************************************)
(* PathEngine: preparar_floyd_warshall                                     *)
(***************************************************************************)
\* inf + x = inf
Plus(a, b) == IF a = INF \/ b = INF THEN INF ELSE a + b

RECURSIVE enumerate_keys(_, _)
\* {nodo: i for i, nodo in enumerate(nodos)}
enumerate_keys(nodos, i) ==
    IF i > Len(nodos) THEN <<>>
    ELSE << [k |-> nodos[i].k, v |-> i - 1] >> \o enumerate_keys(nodos, i + 1)

\* the matrices before the edges: inf / None, 0 / i on the diagonal
InitMatrices(n) ==
    [dist |-> [i \in 0..(n - 1) |-> [j \in 0..(n - 1) |-> IF i = j THEN 0 ELSE INF]],
     succ |-> [i \in 0..(n - 1) |-> [j \in 0..(n - 1) |-> IF i = j THEN i ELSE SinSucesor]]]

\* Lighter without the comparison: the last edge of a pair wins
LighterSiempre(M, idx, edge) ==
    HasKey(idx, edge[1]) /\ HasKey(idx, edge[2])

\* whether an edge of the list replaces what is stored for its pair
Lighter(M, idx, edge) ==
    /\ HasKey(idx, edge[1]) /\ HasKey(idx, edge[2])
    /\ edge[3] < M.dist[Get(idx, edge[1])][Get(idx, edge[2])]

\* dist[i][j] = peso, succ[i][j] = j
LoadEdge(M, idx, edge) ==
    LET i == Get(idx, edge[1])
        j == Get(idx, edge[2])
    IN [dist |-> [M.dist EXCEPT ![i][j] = edge[3]],
        succ |-> [M.succ EXCEPT ![i][j] = j]]

RECURSIVE LoadEdges(_, _, _, _)
LoadEdges(M, idx, aristas, e) ==
    IF e > Len(aristas) THEN M
    ELSE IF Lighter(M, idx, aristas[e])
    THEN LoadEdges(LoadEdge(M, idx, aristas[e]), idx, aristas, e + 1)
    ELSE LoadEdges(M, idx, aristas, e + 1)

\* Relax that leaves the successor alone
RelaxSinSucesor(M, k, i, j, alt) ==
    [dist |-> [M.dist EXCEPT ![i][j] = alt], succ |-> M.succ]

\* Relax that stores the intermediate node itself as the successor
RelaxPorK(M, k, i, j, alt) ==
    [dist |-> [M.dist EXCEPT ![i][j] = alt],
     succ |-> [M.succ EXCEPT ![i][j] = k]]

\* the update of the innermost loop: dist[i][j] = alt, succ[i][j] = succ[i][k]
Relax(M, k, i, j, alt) ==
    [dist |-> [M.dist EXCEPT ![i][j] = alt],
     succ |-> [M.succ EXCEPT ![i][j] = M.succ[i][k]]]

RECURSIVE LoopJMenorIgual(_, _, _, _, _, _)
\* LoopJ that also takes an alternative of equal length
LoopJMenorIgual(M, n, k, i, j, dik) ==
    IF j >= n THEN M
    ELSE IF Plus(dik, M.dist[k][j]) <= M.dist[i][j]
    THEN LoopJMenorIgual(Relax(M, k, i, j, Plus(dik, M.dist[k][j])), n, k, i, j + 1, dik)
    ELSE LoopJMenorIgual(M, n, k, i, j + 1, dik)

RECURSIVE LoopJ(_, _, _, _, _, _)
\* for j in range(n), on the matrices as they are at that moment
LoopJ(M, n, k, i, j, dik) ==
    IF j >= n THEN M
    ELSE IF Plus(dik, M.dist[k][j]) < M.dist[i][j]
    THEN LoopJ(Relax(M, k, i, j, Plus(dik, M.dist[k][j])), n, k, i, j + 1, dik)
    ELSE LoopJ(M, n, k, i, j + 1, dik)

\* whether the row of source i is skipped for the intermediate k
SkipsRow(dik) == dik = INF

RECURSIVE LoopI(_, _, _, _)
\* for i in range(n): dik is read once, before the loop over j
LoopI(M, n, k, i) ==
    IF i >= n THEN M
    ELSE IF SkipsRow(M.dist[i][k]) THEN LoopI(M, n, k, i + 1)
    ELSE LoopI(LoopJ(M, n, k, i, 0, M.dist[i][k]), n, k, i + 1)

RECURSIVE LoopK(_, _, _)
LoopK(M, n, k) ==
    IF k >= n THEN M ELSE LoopK(LoopI(M, n, k, 0), n, k + 1)

\* what a successful preparar_floyd_warshall leaves in the object
preparar_floyd_warshall(rv) ==
    LET n == Len(rv.nodos)
        idx == enumerate_keys(rv.nodos, 1)
        M == LoopK(LoadEdges(InitMatrices(n), idx, rv.aristas, 1), n, 0)
    IN [nodo_a_indice |-> idx,
        indice_a_nodo |-> [i \in 0..(n - 1) |-> rv.nodos[i + 1].k],
        matriz_distancias |-> M.dist,
        matriz_sucesores |-> M.succ]

(***************************************************************************)
(* Queries                                                                 *)
(***************************************************************************)
IsRoadScan(id) == ~(id[1] = "servicio" \/ id[1] = "ref")

RECURSIVE ScanNearest(_, _, _, _, _)
\* the scan of _encontrar_nodo_mas_cercano: a strictly smaller distance wins
ScanNearest(nodos, coordenadas, i, mejor_distancia, mejor_nodo) ==
    IF i > Len(nodos) THEN mejor_nodo
    ELSE IF ~IsRoadScan(nodos[i].k)
    THEN ScanNearest(nodos, coordenadas, i + 1, mejor_distancia, mejor_nodo)
    ELSE LET distancia == _haversine_km(coordenadas, nodos[i].v)
         IN IF distancia < mejor_distancia
            THEN ScanNearest(nodos, coordenadas, i + 1, distancia, nodos[i].k)
            ELSE ScanNearest(nodos, coordenadas, i + 1, mejor_distancia, mejor_nodo)

_encontrar_nodo_mas_cercano(rv, coordenadas) ==
    IF rv = None \/ rv.nodos = <<>> THEN NoId
    ELSE ScanNearest(rv.nodos, coordenadas, 1, INF, NoId)

KeyError == [excepcion |-> "KeyError"]
NoTermina == [excepcion |-> "no termina"]

RECURSIVE Walk(_, _, _, _, _)
\* the while loop of obtener_ruta; fuel bounds the hops the model follows
Walk(succ, actual, j, ruta, fuel) ==
    IF actual = j THEN [ok |-> TRUE, ruta |-> ruta]
    ELSE IF fuel = 0 THEN [ok |-> FALSE, ruta |-> <<>>, loops |-> TRUE]
    ELSE LET nxt == succ[actual][j]
         IN IF nxt = SinSucesor THEN [ok |-> FALSE, ruta |-> <<>>, loops |-> FALSE]
            ELSE Walk(succ, nxt, j, Append(ruta, nxt), fuel - 1)

AttributeError == [excepcion |-> "AttributeError"]

\* obtener_ruta past the fw_preparado test
ruta_preparada(s, origen, destino) ==
    IF ~HasKey(s.nodo_a_indice, origen) \/ ~HasKey(s.nodo_a_indice, destino) THEN None
    ELSE LET i == Get(s.nodo_a_indice, origen)
             j == Get(s.nodo_a_indice, destino)
             n == Len(s.nodo_a_indice)
         IN IF s.matriz_sucesores[i][j] = SinSucesor THEN None
            ELSE LET w == Walk(s.matriz_sucesores, i, j, <<i>>, n * n)
                 IN IF ~w.ok THEN (IF w.loops THEN NoTermina ELSE None)
                    ELSE LET ruta_nodos == [h \in 1..Len(w.ruta) |-> s.indice_a_nodo[w.ruta[h]]]
                             distancia_km == s.matriz_distancias[i][j]
                         IN IF \E h \in 1..Len(ruta_nodos) : ~HasKey(s.red_vial.nodos, ruta_nodos[h])
                            THEN KeyError
                            ELSE [ruta_nodos |-> ruta_nodos,
                                  coordenadas |-> [h \in 1..Len(ruta_nodos) |->
                                      LET c == Get(s.red_vial.nodos, ruta_nodos[h])
                                      IN <<c[2], c[1]>>],
                                  distancia_km |-> distancia_km,
                                  tiempo_min |-> (distancia_km * 60) \div 25]

\* without the fw_preparado test the index mapping is read before it exists
obtener_ruta_sin_guarda(s, origen, destino) ==
    IF s.nodo_a_indice = <<>> THEN AttributeError
    ELSE ruta_preparada(s, origen, destino)

\* s: the object's fields read by the query
obtener_ruta(s, origen, destino) ==
    IF ~s.fw_preparado THEN None
    ELSE ruta_preparada(s, origen, destino)

IsRoute(r) == r # None /\ r # KeyError /\ r # NoTermina /\ r # AttributeError

RECURSIVE InsertSorted(_, _)
\* list.sort(key=distancia_km) is stable: equal keys keep their order
InsertSorted(sorted, x) ==
    IF sorted = <<>> THEN <<x>>
    ELSE IF x.distancia_km < Head(sorted).distancia_km THEN <<x>> \o sorted
    ELSE <<Head(sorted)>> \o InsertSorted(Tail(sorted), x)

RECURSIVE SortByDistance(_)
SortByDistance(lst) ==
    IF lst = <<>> THEN <<>>
    ELSE InsertSorted(SortByDistance(SubSeq(lst, 1, Len(lst) - 1)), lst[Len(lst)])

\* Slice that keeps one entry more
SliceUnoMas(lst, m) ==
    IF m >= 0 THEN SubSeq(lst, 1, Min(m + 1, Len(lst)))
    ELSE SubSeq(lst, 1, Max(Len(lst) + m + 1, 0))

\* lst[:m]
Slice(lst, m) ==
    IF m >= 0 THEN SubSeq(lst, 1, Min(m, Len(lst)))
    ELSE SubSeq(lst, 1, Max(Len(lst) + m, 0))

RECURSIVE CollectServices(_, _, _, _)
\* the loop over the services of the category; an exception of obtener_ruta ends it
CollectServices(s, nodo_origen, tipo_servicio, i) ==
    IF i > Len(Servicios) THEN [excepcion |-> "", lista |-> <<>>]
    ELSE LET rest == CollectServices(s, nodo_origen, tipo_servicio, i + 1)
         IN IF Servicios[i].tipo # tipo_servicio THEN rest
            ELSE IF ~HasKey(s.nodo_a_indice, servicio_id(i)) THEN rest
            ELSE LET ruta_info == obtener_ruta(s, nodo_origen, servicio_id(i))
                 IN IF ruta_info = KeyError \/ ruta_info = NoTermina \/ ruta_info = AttributeError
                    THEN [excepcion |-> ruta_info.excepcion, lista |-> <<>>]
                    ELSE IF ruta_info = None THEN rest
                    ELSE IF rest.excepcion # "" THEN rest
                    ELSE [excepcion |-> "",
                          lista |-> << [servicio |-> i,
                                        distancia_km |-> ruta_info.distancia_km,
                                        tiempo_min |-> ruta_info.tiempo_min,
                                        ruta_coordenadas |-> ruta_info.coordenadas,
                                        ruta_nodos |-> ruta_info.ruta_nodos] >>
                                    \o rest.lista]

encontrar_servicios_cercanos(s, coordenadas_origen, tipo_servicio, max_resultados) ==
    IF ~s.fw_preparado \/ tipo_servicio \notin {Servicios[i].tipo : i \in 1..Len(Servicios)}
    THEN [excepcion |-> "", lista |-> <<>>]
    ELSE LET nodo_origen == _encontrar_nodo_mas_cercano(s.red_vial, coordenadas_origen)
         IN IF nodo_origen = NoId THEN [excepcion |-> "", lista |-> <<>>]
            ELSE LET c == CollectServices(s, nodo_origen, tipo_servicio, 1)
                 IN IF c.excepcion # "" THEN c
                    ELSE [excepcion |-> "",
                          lista |-> Slice(SortByDistance(c.lista), max_resultados)]

(***************************************************************************)
(* Inputs                                                                  *)
(***************************************************************************)
\* road points: two closer than 0.01 km, one far from both
Points == {<<0, 0>>, <<0, 1>>, <<6, 8>>}

SeqsUpTo(S, n) == UNION {[1..m -> S] : m \in 0..n}

GeometriesOf(P) == UNION {[1..m -> P] : m \in 2..MaxPts}

WaysOf(P, oneways, junctions) ==
    {[type |-> "way", has_geometry |-> TRUE, geometry |-> g,
      tags |-> [oneway |-> o, junction |-> j]] :
        g \in GeometriesOf(P), o \in oneways, j \in junctions}

\* an element that is not a way, and a way without geometry
OtherElements ==
    {[type |-> "node", has_geometry |-> FALSE, geometry |-> <<>>,
      tags |-> [oneway |-> "no", junction |-> ""]],
     [type |-> "way", has_geometry |-> FALSE, geometry |-> <<>>,
      tags |-> [oneway |-> "yes", junction |-> ""]]}

\* documents of the provider in SpecBuild: every tag on the first element,
\* each direction on the others
DocsBuild ==
    LET first == WaysOf(Points, {"no", "yes", "TRUE", "1", "-1"}, {"", "roundabout"})
                 \cup OtherElements
        others == WaysOf(Points, {"no", "yes", "-1"}, {""})
    IN {<<>>} \cup {<<e>> \o r : e \in first, r \in SeqsUpTo(others, MaxWays - 1)}

\* documents of the provider in Spec
DocsSys == SeqsUpTo(WaysOf({<<0, 0>>, <<6, 8>>}, {"no", "yes"}, {""}), MaxWaysSys)

\* coordinates a caller asks about
QueryCoords == {<<0, 0>>, <<3, 4>>, <<6, 8>>, <<0, 150>>}
QueryTipos == {"Hospital", "Bomberos", "Policia", "Farmacia"}
QueryMax == (-1)..MaxResultados

(***************************************************************************)
(* State                                                                   *)
(***************************************************************************)
VARIABLES
    red_vial,            \* None or [nodos, aristas]
    fw_preparado,
    nodo_a_indice,       \* unset (<<>>) before the first preparation
    indice_a_nodo,
    matriz_distancias,
    matriz_sucesores,
    pc,                  \* "idle", or the place inside cargar_red_vial
    data_osm,            \* the document of the last download
    poi,                 \* the point of interest _integrar_servicios_en_red is at
    snap,                \* (new_node, d_conn) of the last split
    instancia,           \* history: how many graphs have been built
    fw_instancia,        \* history: the graph the matrices were prepared from
    ret,                 \* the pending return value of the last call
    ds                   \* SpecDown: a way's length, the step, the kept indices

vars == <<red_vial, fw_preparado, nodo_a_indice, indice_a_nodo, matriz_distancias,
          matriz_sucesores, pc, data_osm, poi, snap, instancia, fw_instancia, ret, ds>>

fwvars == <<fw_preparado, nodo_a_indice, indice_a_nodo, matriz_distancias,
            matriz_sucesores, fw_instancia>>
loadvars == <<data_osm, poi, snap, instancia>>
objvars == <<red_vial, fw_preparado, nodo_a_indice, indice_a_nodo, matriz_distancias,
             matriz_sucesores>>

NoRet == [op |-> "none", val |-> None]
NoSnap == [new_node |-> NoId, d_conn |-> 0]
NoDs == [len |-> 0, total_points |-> 0, step |-> 0, kept |-> <<>>, done |-> FALSE]

\* the fields of the object the queries read
Self == [red_vial |-> red_vial, fw_preparado |-> fw_preparado,
         nodo_a_indice |-> nodo_a_indice, indice_a_nodo |-> indice_a_nodo,
         matriz_distancias |-> matriz_distancias, matriz_sucesores |-> matriz_sucesores]

\* __init__
InitObj ==
    /\ red_vial = None
    /\ fw_preparado = FALSE
    /\ nodo_a_indice = <<>>
    /\ indice_a_nodo = <<>>
    /\ matriz_distancias = <<>>
    /\ matriz_sucesores = <<>>
    /\ pc = "idle"
    /\ data_osm = <<>>
    /\ poi = 0
    /\ snap = NoSnap
    /\ instancia = 0
    /\ fw_instancia = 0
    /\ ret = NoRet

Init == InitObj /\ ds = NoDs

(***************************************************************************)
(* cargar_red_vial, in the steps of _integrar_servicios_en_red             *)
(***************************************************************************)
\* the download and procesar_red_osm: the graph is replaced
Cargar(doc) ==
    /\ pc = "idle" /\ ret = NoRet
    /\ data_osm' = doc
    /\ red_vial' = procesar_red_osm(doc)
    /\ instancia' = instancia + 1
    /\ poi' = 1
    /\ snap' = NoSnap
    /\ pc' = "nodo"
    /\ UNCHANGED <<fwvars, ret, ds>>

\* nodos[node_id] = coordenadas
IntegrarNodo ==
    /\ pc = "nodo" /\ poi <= NumPOI
    /\ red_vial' = [red_vial EXCEPT !.nodos = DictSet(@, poi_id(poi), poi_coords(poi))]
    /\ pc' = "snap"
    /\ UNCHANGED <<fwvars, loadvars, ret, ds>>

\* _split_edge_and_connect_point
IntegrarSnap ==
    /\ pc = "snap"
    /\ LET r == _split_edge_and_connect_point(red_vial, poi_coords(poi))
       IN /\ red_vial' = r.rv
          /\ snap' = [new_node |-> r.new_id, d_conn |-> r.d_conn]
    /\ pc' = "conn"
    /\ UNCHANGED <<fwvars, data_osm, poi, instancia, ret, ds>>

\* the two connector edges, when the split gave a node
IntegrarConn ==
    /\ pc = "conn"
    /\ red_vial' = [red_vial EXCEPT !.aristas =
                       @ \o connector_edges(poi, poi_id(poi), snap.new_node, snap.d_conn)]
    /\ poi' = poi + 1
    /\ snap' = NoSnap
    /\ pc' = "nodo"
    /\ UNCHANGED <<fwvars, data_osm, instancia, ret, ds>>

\* return True
CargarFin ==
    /\ pc = "nodo" /\ poi > NumPOI
    /\ pc' = "idle"
    /\ poi' = 0
    /\ ret' = [op |-> "cargar_red_vial", val |-> [ok |-> TRUE]]
    /\ UNCHANGED <<red_vial, fwvars, data_osm, snap, instancia, ds>>

(***************************************************************************)
(* preparar_floyd_warshall and the queries                                 *)
(***************************************************************************)
Preparar ==
    /\ pc = "idle" /\ ret = NoRet
    /\ IF red_vial = None
       THEN /\ ret' = [op |-> "preparar_floyd_warshall", val |-> [ok |-> FALSE]]
            /\ UNCHANGED <<fwvars>>
       ELSE LET r == preparar_floyd_warshall(red_vial)
            IN /\ nodo_a_indice' = r.nodo_a_indice
               /\ indice_a_nodo' = r.indice_a_nodo
               /\ matriz_distancias' = r.matriz_distancias
               /\ matriz_sucesores' = r.matriz_sucesores
               /\ fw_preparado' = TRUE
               /\ fw_instancia' = instancia
               /\ ret' = [op |-> "preparar_floyd_warshall", val |-> [ok |-> TRUE]]
    /\ UNCHANGED <<red_vial, pc, loadvars, ds>>

\* node ids a caller can name: those of the graph, of the index, and one of neither
QueryIds ==
    (IF red_vial = None THEN {} ELSE Keys(red_vial.nodos))
    \cup Keys(nodo_a_indice) \cup {<<"node", 99>>}

ObtenerRuta(origen, destino) ==
    /\ pc = "idle" /\ ret = NoRet
    /\ ret' = [op |-> "obtener_ruta", val |-> obtener_ruta(Self, origen, destino)]
    /\ UNCHANGED <<objvars, pc, loadvars, fw_instancia, ds>>

EncontrarServiciosCercanos(coordenadas_origen, tipo_servicio, max_resultados) ==
    /\ pc = "idle" /\ ret = NoRet
    /\ ret' = [op |-> "encontrar_servicios_cercanos",
               val |-> encontrar_servicios_cercanos(Self, coordenadas_origen,
                                                    tipo_servicio, max_resultados)]
    /\ UNCHANGED <<objvars, pc, loadvars, fw_instancia, ds>>

\* the caller takes the return value
Return ==
    /\ ret # NoRet
    /\ ret' = NoRet
    /\ UNCHANGED <<objvars, pc, loadvars, fw_instancia, ds>>

CargarSys == \E doc \in DocsSys : instancia < MaxCargas /\ Cargar(doc)
Rutas == \E o \in QueryIds, d \in QueryIds : ObtenerRuta(o, d)
Cercanos == \E c \in QueryCoords, t \in QueryTipos, m \in QueryMax :
                EncontrarServiciosCercanos(c, t, m)

Next ==
    \/ CargarSys
    \/ IntegrarNodo
    \/ IntegrarSnap
    \/ IntegrarConn
    \/ CargarFin
    \/ Preparar
    \/ Rutas
    \/ Cercanos
    \/ Return

Spec == Init /\ [][Next]_vars

(***************************************************************************)
(* SpecBuild: one load of a richer document, then the preparation          *)
(***************************************************************************)
CargarBuild == \E doc \in DocsBuild : instancia < 1 /\ Cargar(doc)

NextBuild ==
    \/ CargarBuild
    \/ IntegrarNodo
    \/ IntegrarSnap
    \/ IntegrarConn
    \/ CargarFin
    \/ Preparar
    \/ Return

SpecBuild == Init /\ [][NextBuild]_vars

(***************************************************************************)
(* SpecFW: preparar_floyd_warshall on any small graph with positive        *)
(* weights (several edges may join the same ordered pair)                  *)
(***************************************************************************)
NodosFW == [i \in 1..MaxNodosFW |-> [k |-> <<"node", i - 1>>, v |-> <<0, i>>]]

\* a light and a heavy weight: two light hops are shorter than one heavy edge
PesosFW == {MIN_PESO, MIN_PESO * MaxPesoFW}

\* the builder joins distinct nodes only
AristasFW ==
    {<<NodosFW[a].k, NodosFW[b].k, w>> :
        a \in 1..MaxNodosFW, b \in 1..MaxNodosFW, w \in PesosFW} \ 
    {<<NodosFW[a].k, NodosFW[a].k, w>> : a \in 1..MaxNodosFW, w \in PesosFW}

InitFW ==
    /\ red_vial \in {[nodos |-> NodosFW, aristas |-> es] :
                        es \in SeqsUpTo(AristasFW, MaxAristasFW)}
    /\ fw_preparado = FALSE
    /\ nodo_a_indice = <<>>
    /\ indice_a_nodo = <<>>
    /\ matriz_distancias = <<>>
    /\ matriz_sucesores = <<>>
    /\ pc = "idle"
    /\ data_osm = <<>>
    /\ poi = 0
    /\ snap = NoSnap
    /\ instancia = 1
    /\ fw_instancia = 0
    /\ ret = NoRet
    /\ ds = NoDs

NextFW ==
    \/ Preparar
    \/ Return

SpecFW == InitFW /\ [][NextFW]_vars

(***************************************************************************)
(* SpecDown: the points of one way that procesar_red_osm keeps, for a way  *)
(* of ds.len points in a document of ds.total_points points                *)
(***************************************************************************)
TotalPoints == {4850, 4851, 9000, 9701, 14000, 20000}

InitDown ==
    /\ InitObj
    /\ ds \in {[len |-> l, total_points |-> t, step |-> 0, kept |-> <<>>, done |-> FALSE] :
                  l \in 2..MaxGeom, t \in TotalPoints \cup (2..MaxGeom)}
    /\ ds.total_points >= ds.len

Downsample ==
    /\ ~ds.done
    /\ ds' = [ds EXCEPT !.step = downsample_step(ds.total_points),
                        !.kept = kept_indices(ds.len, downsample_step(ds.total_points)),
                        !.done = TRUE]
    /\ UNCHANGED <<objvars, pc, loadvars, fw_instancia, ret>>

NextDown == Downsample

SpecDown == InitDown /\ [][NextDown]_vars

(***************************************************************************)
(* Properties                                                              *)
(***************************************************************************)
Vacio == [excepcion |-> "", lista |-> <<>>]
Consultas == {"obtener_ruta", "encontrar_servicios_cercanos"}
SinResultado(r) ==
    /\ r.op = "obtener_ruta" => r.val = None
    /\ r.op = "encontrar_servicios_cercanos" => r.val = Vacio

\* C1: while the matrices come from another graph instance than the current
\* one (a reload without a new preparation), obtener_ruta returns None and
\* encontrar_servicios_cercanos returns the empty list.
C1_StaleNeverAnswered ==
    (pc = "idle" /\ ret.op \in Consultas /\ fw_instancia # instancia) => SinResultado(ret)

\* C2: a query made while fw_preparado is false (before any load, after a
\* load, after a preparation that failed for want of a graph) returns None or
\* the empty list, raises nothing, and leaves the object as it was.
C2_NotPreparedQueries ==
    [][(~fw_preparado /\ ret = NoRet /\ ret'.op \in Consultas)
         => (SinResultado(ret') /\ UNCHANGED <<objvars, pc, loadvars, fw_instancia>>)]_vars

C2_Witness ==
    /\ ~fw_preparado /\ red_vial # None /\ pc = "idle"
    /\ ret.op = "obtener_ruta" /\ ret.val = None

(***************************************************************************)
(* A reference for the prepared matrices: shortest distances by rounds of  *)
(* edge relaxation, straight from the edge list                            *)
(***************************************************************************)
NodeIdx(rv, id) == KeyPos(rv.nodos, id) - 1
NodeIds(rv) == [i \in 0..(Len(rv.nodos) - 1) |-> rv.nodos[i + 1].k]
MinOf(S) == CHOOSE m \in S : \A y \in S : m <= y
EdgeSet(rv) == Range(rv.aristas)

\* the lightest edge from a to b, INF when there is none
MinEdge(rv, a, b) ==
    MinOf({INF} \cup {e[3] : e \in {x \in EdgeSet(rv) : x[1] = a /\ x[2] = b}})

RefRound(rv, D) ==
    [i \in DOMAIN D |-> [j \in DOMAIN D |->
        MinOf({D[i][j]} \cup
              {Plus(D[i][NodeIdx(rv, e[1])], e[3]) :
                  e \in {x \in EdgeSet(rv) : x[2] = NodeIds(rv)[j]}})]]

RECURSIVE RefRounds(_, _, _)
RefRounds(rv, D, m) == IF m = 0 THEN D ELSE RefRounds(rv, RefRound(rv, D), m - 1)

\* least total weight over the directed paths from i to j, INF when none
RefDist(rv) == RefRounds(rv, InitMatrices(Len(rv.nodos)).dist, Len(rv.nodos) - 1)

Prepared == fw_preparado /\ pc = "idle" /\ fw_instancia = instancia
Idx == 0..(Len(red_vial.nodos) - 1)

\* C3: after the preparation every entry of matriz_distancias is the least
\* total weight over the directed paths between the two nodes (the lightest
\* of parallel edges counts), and INF exactly when there is no path.
C3_DistancesAreShortest ==
    Prepared => matriz_distancias = RefDist(red_vial)

\* a pair whose shortest path has several hops and beats a direct edge, and
\* a pair with no path
C3_Witness ==
    /\ Prepared
    /\ \E i \in Idx, j \in Idx :
          matriz_distancias[i][j] < MinEdge(red_vial, NodeIds(red_vial)[i], NodeIds(red_vial)[j])
          /\ MinEdge(red_vial, NodeIds(red_vial)[i], NodeIds(red_vial)[j]) < INF
    /\ \E i \in Idx, j \in Idx : matriz_distancias[i][j] = INF

\* C4: after the preparation obtener_ruta(u, v) gives a route with a
\* non-empty node sequence exactly when the distance from u to v is finite,
\* and the successor entry is None exactly when the distance entry is INF.
C4_RouteIffFinite ==
    Prepared =>
        \A i \in Idx, j \in Idx :
            LET r == obtener_ruta(Self, NodeIds(red_vial)[i], NodeIds(red_vial)[j])
            IN /\ (IsRoute(r) /\ Len(r.ruta_nodos) > 0) <=> (matriz_distancias[i][j] < INF)
               /\ (matriz_sucesores[i][j] = SinSucesor) <=> (matriz_distancias[i][j] = INF)

\* a reachable pair of distinct nodes with no direct edge, and an unreachable pair
C4_Witness ==
    /\ Prepared
    /\ \E i \in Idx, j \in Idx :
          /\ i # j /\ matriz_distancias[i][j] < INF
          /\ MinEdge(red_vial, NodeIds(red_vial)[i], NodeIds(red_vial)[j]) = INF
    /\ \E i \in Idx, j \in Idx : matriz_sucesores[i][j] = SinSucesor

RECURSIVE HopSum(_, _, _)
\* the lightest edges between consecutive nodes of a node sequence, added up
HopSum(rv, ruta_nodos, h) ==
    IF h >= Len(ruta_nodos) THEN 0
    ELSE Plus(MinEdge(rv, ruta_nodos[h], ruta_nodos[h + 1]), HopSum(rv, ruta_nodos, h + 1))

\* C5: every route obtener_ruta returns after the preparation starts at the
\* origin, ends at the destination, follows directed edges of the graph, and
\* its distancia_km is the distance entry and the sum of the lightest edges
\* along its hops.
C5_RouteFollowsEdges ==
    Prepared =>
        \A i \in Idx, j \in Idx :
            LET r == obtener_ruta(Self, NodeIds(red_vial)[i], NodeIds(red_vial)[j])
            IN IsRoute(r) =>
                /\ r.ruta_nodos[1] = NodeIds(red_vial)[i]
                /\ r.ruta_nodos[Len(r.ruta_nodos)] = NodeIds(red_vial)[j]
                /\ \A h \in 1..(Len(r.ruta_nodos) - 1) :
                      <<r.ruta_nodos[h], r.ruta_nodos[h + 1]>> \in dir_set(red_vial.aristas)
                /\ r.distancia_km = matriz_distancias[i][j]
                /\ r.distancia_km = HopSum(red_vial, r.ruta_nodos, 1)

\* a route of three hops
C5_Witness ==
    /\ Prepared
    /\ \E i \in Idx, j \in Idx :
          LET r == obtener_ruta(Self, NodeIds(red_vial)[i], NodeIds(red_vial)[j])
          IN IsRoute(r) /\ Len(r.ruta_nodos) = 4

(***************************************************************************)
(* The graph builder                                                       *)
(***************************************************************************)
\* the graph is procesar_red_osm's result, before any point of interest
AfterBuild == pc = "nodo" /\ poi = 1

\* the road node the builder made for a point
NodeOfPoint(rv, p) ==
    CHOOSE id \in Keys(rv.nodos) : id[1] = "node" /\ Get(rv.nodos, id) = coord_key(p)

\* the directions of a way as the rule words them (tag values in lower case)
BackwardOnly(tags) == Lower(tags.oneway) = "-1"
ForwardOnly(tags) ==
    \/ Lower(tags.oneway) \in {"yes", "true", "1"}
    \/ (Lower(tags.junction) = "roundabout" /\ ~BackwardOnly(tags))
TwoWay(tags) == ~ForwardOnly(tags) /\ ~BackwardOnly(tags)

\* the consecutive pairs <<element, position>> of the ways of the document
WayPairs ==
    {eh \in (1..Len(data_osm)) \X (1..MaxGeom) :
        IsWay(data_osm[eh[1]]) /\ eh[2] < Len(data_osm[eh[1]].geometry)}

\* how many times the rule emits the edge a -> b
Emissions(a, b) ==
    Cardinality({eh \in WayPairs :
        LET el == data_osm[eh[1]]
            x == NodeOfPoint(red_vial, el.geometry[eh[2]])
            y == NodeOfPoint(red_vial, el.geometry[eh[2] + 1])
        IN x # y /\ \/ (x = a /\ y = b /\ (TwoWay(el.tags) \/ ForwardOnly(el.tags)))
                    \/ (x = b /\ y = a /\ (TwoWay(el.tags) \/ BackwardOnly(el.tags)))})

CountEdges(a, b) ==
    Cardinality({i \in 1..Len(red_vial.aristas) :
                    red_vial.aristas[i][1] = a /\ red_vial.aristas[i][2] = b})

\* the document is one way of two distinct points tagged oneway=yes
SingleOnewayYes ==
    /\ Len(data_osm) = 1 /\ IsWay(data_osm[1])
    /\ Len(data_osm[1].geometry) = 2
    /\ data_osm[1].geometry[1] # data_osm[1].geometry[2]
    /\ data_osm[1].tags.oneway = "yes"

\* C6: the builder emits a -> b for a consecutive pair of distinct kept nodes
\* of a way exactly when the way is two-way or forward-only, and b -> a
\* exactly when it is two-way or backward-only; a single two-point way tagged
\* oneway=yes gives exactly one edge, and after the preparation the route
\* from its last node to its first is not found while the forward one is.
C6_Directionality ==
    /\ AfterBuild =>
          /\ \A a \in Keys(red_vial.nodos), b \in Keys(red_vial.nodos) :
                CountEdges(a, b) = Emissions(a, b)
          /\ SingleOnewayYes => Len(red_vial.aristas) = 1
    /\ (Prepared /\ SingleOnewayYes) =>
          LET first == NodeOfPoint(red_vial, data_osm[1].geometry[1])
              last == NodeOfPoint(red_vial, data_osm[1].geometry[2])
          IN /\ obtener_ruta(Self, last, first) = None
             /\ IsRoute(obtener_ruta(Self, first, last))

\* the preparation has run on the graph of a single oneway=yes way
C6_Witness == Prepared /\ SingleOnewayYes

(***************************************************************************)
(* Downsampling                                                            *)
(***************************************************************************)
\* C7: for every stride and every way of at least two points the kept points
\* are at least two, start with the first point, end with the original last
\* point, and are otherwise exactly the points whose index is a multiple of
\* the stride.
C7_KeptPoints ==
    ds.done =>
        /\ ds.step >= 1
        /\ Len(ds.kept) >= 2
        /\ ds.kept[1] = 0
        /\ ds.kept[Len(ds.kept)] = ds.len - 1
        /\ \A h \in 1..(Len(ds.kept) - 1) : ds.kept[h] < ds.kept[h + 1]
        /\ Range(ds.kept) = {idx \in 0..(ds.len - 1) : idx % ds.step = 0} \cup {ds.len - 1}

\* a stride above one that does not divide the index of the last point
C7_Witness ==
    /\ ds.done /\ ds.step > 1 /\ (ds.len - 1) % ds.step # 0
    /\ Len(ds.kept) > 2

(***************************************************************************)
(* Weights and endpoints                                                   *)
(***************************************************************************)
Loaded == red_vial # None /\ pc = "idle"

\* C8: in every graph state reachable through cargar_red_vial every edge
\* weighs at least 0.01 km: road edges, the edges of a split and the
\* connector edges.
C8_MinWeight ==
    red_vial # None => \A e \in Range(red_vial.aristas) : e[3] >= MIN_PESO

\* a finished load with a road edge between points closer than the floor, a
\* snap node that lies on an end of its edge, and a capped connector
C8_Witness ==
    /\ Loaded
    /\ \E e \in Range(red_vial.aristas) :
          /\ e[1][1] = "node" /\ e[2][1] = "node" /\ e[3] = MIN_PESO
          /\ _haversine_km(Get(red_vial.nodos, e[1]), Get(red_vial.nodos, e[2])) < MIN_PESO
    /\ \E e \in Range(red_vial.aristas) :
          /\ e[1][1] = "node" /\ e[2][1] = "snap" /\ e[3] = MIN_PESO
          /\ Get(red_vial.nodos, e[1]) = Get(red_vial.nodos, e[2])
    /\ \E e \in Range(red_vial.aristas) :
          /\ e[1][1] = "ref" /\ e[3] = CAP_REF
          /\ _haversine_km(Get(red_vial.nodos, e[1]), Get(red_vial.nodos, e[2])) > CAP_REF

EndpointsKnown(rv) ==
    \A e \in Range(rv.aristas) : HasKey(rv.nodos, e[1]) /\ HasKey(rv.nodos, e[2])

\* C9: after the construction and after every snap and every connector
\* insertion both ends of every edge are keys of the node mapping, and the
\* id of a snap node is not a key before the snap inserts it, so the insertion
\* leaves every earlier node as it was.
C9_EndpointsAndFreshSnap ==
    [][/\ red_vial' # None => EndpointsKnown(red_vial')
       /\ (pc = "snap" /\ snap'.new_node # NoId) =>
             /\ ~HasKey(red_vial.nodos, snap'.new_node)
             /\ HasKey(red_vial'.nodos, snap'.new_node)
             /\ SubSeq(red_vial'.nodos, 1, Len(red_vial.nodos)) = red_vial.nodos]_vars

\* a connector of a later point of interest is in, after snaps that split edges
C9_Witness ==
    /\ pc = "nodo" /\ poi > 2
    /\ Cardinality({id \in Keys(red_vial.nodos) : id[1] = "snap"}) >= 2
    /\ \E e \in Range(red_vial.aristas) : e[1][1] = "snap" /\ e[2][1] = "servicio"
    /\ \E e \in Range(red_vial.aristas) : e[1][1] = "node" /\ e[2][1] = "snap"

(***************************************************************************)
(* The nearest node                                                        *)
(***************************************************************************)
RoadIds(rv) == {id \in Keys(rv.nodos) : id[1] = "node"}

\* C10: on every graph after the integration _encontrar_nodo_mas_cercano
\* gives a road node only, never a service, reference or snap node: the road
\* node nearest to the coordinate, and none when there is no road node.
C10_NearestIsRoadNode ==
    Loaded =>
        \A c \in QueryCoords :
            LET r == _encontrar_nodo_mas_cercano(red_vial, c)
            IN /\ r[1] \notin {"servicio", "ref", "snap"}
               /\ (r = NoId) <=> (RoadIds(red_vial) = {})
               /\ r # NoId =>
                     /\ r \in RoadIds(red_vial)
                     /\ \A id \in RoadIds(red_vial) :
                           _haversine_km(c, Get(red_vial.nodos, r))
                             <= _haversine_km(c, Get(red_vial.nodos, id))

(***************************************************************************)
(* The nearest services                                                    *)
(***************************************************************************)
\* one round of edge relaxation on the distances d from one source
BFRound(rv, d) ==
    [v \in DOMAIN d |->
        MinOf({d[v]} \cup {Plus(d[e[1]], e[3]) : e \in {x \in EdgeSet(rv) : x[2] = v}})]

RECURSIVE BFFix(_, _)
BFFix(rv, d) ==
    LET dn == BFRound(rv, d)
    IN IF dn = d THEN d ELSE BFFix(rv, dn)

\* least total weight of the directed paths from o to every node, INF when none
SourceDist(rv, o) == BFFix(rv, [v \in Keys(rv.nodos) |-> IF v = o THEN 0 ELSE INF])

\* the services of a category that a path of the graph reaches, sd being the
\* distances from the origin's node
Reachable(sd, tipo) ==
    {i \in 1..Len(Servicios) :
        /\ Servicios[i].tipo = tipo
        /\ servicio_id(i) \in DOMAIN sd
        /\ sd[servicio_id(i)] < INF}

\* what the list r for category t and limit m has to be, from the node o
RankedFrom(o, sd, r, t, m) ==
    LET got == {r.lista[h].servicio : h \in 1..Len(r.lista)}
    IN /\ r.excepcion = ""
       /\ Len(r.lista) <= m
       /\ \A h \in 1..(Len(r.lista) - 1) :
             r.lista[h].distancia_km <= r.lista[h + 1].distancia_km
       /\ Cardinality(got) = Len(r.lista)
       /\ (o = NoId \/ t \notin Tipos) => r.lista = <<>>
       /\ (o # NoId) =>
             /\ got \subseteq Reachable(sd, t)
             /\ \A h \in 1..Len(r.lista) :
                   r.lista[h].distancia_km = sd[servicio_id(r.lista[h].servicio)]
             /\ Len(r.lista) = Min(m, Cardinality(Reachable(sd, t)))
             /\ \A i \in Reachable(sd, t) \ got :
                   \A g \in got : sd[servicio_id(i)] >= sd[servicio_id(g)]

\* the lists for the origin c, every category and the limits of L
RankedRight(c, L) ==
    LET o == _encontrar_nodo_mas_cercano(red_vial, c)
        sd == IF o = NoId THEN <<>> ELSE SourceDist(red_vial, o)
    IN \A t \in QueryTipos, m \in L :
          RankedFrom(o, sd, encontrar_servicios_cercanos(Self, c, t, m), t, m)

\* C11 as stated: for every origin, category and integer limit the list of
\* encontrar_servicios_cercanos on a prepared system has at most limit
\* entries, is sorted by path distance, holds only reachable services of the
\* category, each once, and holds the limit closest of them; an unknown
\* category gives the empty list.
C11_AnyLimit ==
    Prepared => \A c \in QueryCoords : RankedRight(c, QueryMax)

\* C11 amended: the same for every limit that is not negative.
C11_RankedWithinLimit ==
    Prepared => \A c \in QueryCoords : RankedRight(c, {m \in QueryMax : m >= 0})

\* a call returned one service because of its limit while two are reachable
\* at different distances
C11_Witness ==
    /\ Prepared /\ ret.op = "encontrar_servicios_cercanos"
    /\ \E c \in QueryCoords, t \in QueryTipos :
          LET two == encontrar_servicios_cercanos(Self, c, t, 2).lista
          IN /\ Len(two) = 2 /\ two[1].distancia_km < two[2].distancia_km
             /\ two[1].servicio > two[2].servicio
             /\ ret.val = encontrar_servicios_cercanos(Self, c, t, 1)

(***************************************************************************)
(* The split of an edge                                                    *)
(***************************************************************************)
RECURSIVE ReachFrom(_, _)
\* the nodes that directed paths over the edge list reach from the set S
ReachFrom(aristas, S) ==
    LET N == S \cup {e[2] : e \in {x \in Range(aristas) : x[1] \in S}}
    IN IF N = S THEN S ELSE ReachFrom(aristas, N)

\* the ordered pairs the split has to add for the edge (u, v) and the node q
SplitPairs(aristas, u, v, q) ==
    {<<u, q>>, <<q, v>>}
    \cup (IF <<v, u>> \in dir_set(aristas) THEN {<<v, q>>, <<q, u>>} ELSE {})

\* C12: _split_edge_and_connect_point adds u -> q and q -> v for the nearest
\* edge (u, v) and the snap node q, adds v -> q and q -> u exactly when the
\* edge (v, u) was in the graph, adds nothing else and removes nothing; so
\* no node of the graph becomes reachable from another through the snap node.
C12_SplitKeepsDirection ==
    [][(pc = "snap" /\ snap'.new_node # NoId) =>
          LET res == _nearest_edge_projection(red_vial, poi_coords(poi))
              old == red_vial.aristas
              new == red_vial'.aristas
              added == SubSeq(new, Len(old) + 1, Len(new))
          IN /\ <<res.u, res.v>> \in dir_set(old)
             /\ SubSeq(new, 1, Len(old)) = old
             /\ dir_set(added) = SplitPairs(old, res.u, res.v, snap'.new_node)
             /\ Len(added) = Cardinality(SplitPairs(old, res.u, res.v, snap'.new_node))
             /\ \A x \in Keys(red_vial.nodos) :
                   ReachFrom(new, {x}) \cap Keys(red_vial.nodos) = ReachFrom(old, {x})]_vars

\* a snap node on a one-way edge between two road nodes: the edge has no
\* reverse and its start is not reachable from its end
C12_Witness ==
    /\ pc = "conn" /\ snap.new_node # NoId
    /\ \E e \in Range(red_vial.aristas) :
          /\ e[1][1] = "node" /\ e[2][1] = "node"
          /\ <<e[2], e[1]>> \notin dir_set(red_vial.aristas)
          /\ <<e[1], snap.new_node>> \in dir_set(red_vial.aristas)
          /\ <<snap.new_node, e[2]>> \in dir_set(red_vial.aristas)
          /\ <<snap.new_node, e[1]>> \notin dir_set(red_vial.aristas)
          /\ e[1] \notin ReachFrom(red_vial.aristas, {e[2]})

(***************************************************************************)
(* The walk over the successors                                            *)
(***************************************************************************)
\* C13: after the preparation of a graph with positive weights, for every
\* pair with a successor entry the walk of obtener_ruta reaches the
\* destination in at most n - 1 hops, visits no node twice and meets no
\* missing successor on the way.
C13_WalkTerminates ==
    Prepared =>
        \A i \in Idx, j \in Idx :
            matriz_sucesores[i][j] # SinSucesor =>
                LET n == Len(red_vial.nodos)
                    w == Walk(matriz_sucesores, i, j, <<i>>, n * n)
                IN /\ w.ok
                   /\ w.ruta[1] = i /\ w.ruta[Len(w.ruta)] = j
                   /\ Len(w.ruta) - 1 <= n - 1
                   /\ Cardinality(Range(w.ruta)) = Len(w.ruta)

\* a walk of n - 1 hops, through every node
C13_Witness ==
    /\ Prepared
    /\ \E i \in Idx, j \in Idx :
          /\ matriz_sucesores[i][j] # SinSucesor
          /\ Len(Walk(matriz_sucesores, i, j, <<i>>, Len(red_vial.nodos))
                    .ruta) = Len(red_vial.nodos)
====
